---- MODULE Spec2Model ----
(***************************************************************************)
(* Model of query_lm_studio.py: a command-line client that loads its       *)
(* configuration from the environment, sends one HTTP POST to an LM Studio *)
(* completions endpoint and reports the completion or a classified error.  *)
(*                                                                         *)
(* Text is modelled as sequences of one-character strings, so that parsing *)
(* (int), quoting (repr) and substring tests are computed, not assumed.    *)
(* An optional value (Python None or a value) is a sequence of length <= 1.*)
(***************************************************************************)
EXTENDS Integers, Sequences, FiniteSets, TLC

\* ---------------------------------------------------------------- bounds
\* --max-tokens values tried on the command line: 0..MaxCliTokens
MaxCliTokens == 1
\* token counts appearing in the usage object of a response: 0..MaxCount
MaxCount == 1

\* ------------------------------------------------------ program constants
PortMin == 1
PortMax == 65535
Timeout == 30

\* --------------------------------------------------------- optional values
Some(v) == <<v>>
None == <<>>

\* ------------------------------------------------------------ text helpers
S_localhost == <<"l", "o", "c", "a", "l", "h", "o", "s", "t">>
S_gemma == <<"g", "e", "m", "m", "a", "-", "3">>
S_choices == <<"c", "h", "o", "i", "c", "e", "s">>
S_Paris == <<"P", "a", "r", "i", "s">>
S_internal_error ==
    <<"i", "n", "t", "e", "r", "n", "a", "l", " ", "e", "r", "r", "o", "r">>

\* s occurs in t as a contiguous run of characters (Python: s in t)
IsSubstring(s, t) ==
    \E i \in 0..(Len(t) - Len(s)) : SubSeq(t, i + 1, i + Len(s)) = s

\* characters str.strip() and int() treat as white space
Whitespace == {" ", "\t", "\n"}

Digits == {"0", "1", "2", "3", "4", "5", "6", "7", "8", "9"}

DigitValue(c) ==
    CASE c = "0" -> 0 [] c = "1" -> 1 [] c = "2" -> 2 [] c = "3" -> 3
      [] c = "4" -> 4 [] c = "5" -> 5 [] c = "6" -> 6 [] c = "7" -> 7
      [] c = "8" -> 8 [] c = "9" -> 9

RECURSIVE LStrip(_)
LStrip(s) ==
    IF s # <<>> /\ Head(s) \in Whitespace THEN LStrip(Tail(s)) ELSE s

RECURSIVE RStrip(_)
RStrip(s) ==
    IF s # <<>> /\ s[Len(s)] \in Whitespace
    THEN RStrip(SubSeq(s, 1, Len(s) - 1))
    ELSE s

Strip(s) == RStrip(LStrip(s))

\* the literal without its optional sign
Unsigned(t) ==
    IF t # <<>> /\ Head(t) \in {"+", "-"} THEN Tail(t) ELSE t

\* int(s) does not raise ValueError: optional white space around an optional
\* sign and decimal digits, single underscores allowed between digits
IsIntLiteral(s) ==
    LET b == Unsigned(Strip(s)) IN
    /\ b # <<>>
    /\ \A i \in 1..Len(b) : b[i] \in Digits \cup {"_"}
    /\ b[1] \in Digits
    /\ b[Len(b)] \in Digits
    /\ \A i \in 1..(Len(b) - 1) : ~(b[i] = "_" /\ b[i + 1] = "_")

RECURSIVE DigitsValue(_, _)
DigitsValue(b, acc) ==
    IF b = <<>> THEN acc
    ELSE IF Head(b) = "_" THEN DigitsValue(Tail(b), acc)
    ELSE DigitsValue(Tail(b), acc * 10 + DigitValue(Head(b)))

\* the value of int(s) when IsIntLiteral(s)
IntValue(s) ==
    LET t == Strip(s) IN
    IF Head(t) = "-" THEN 0 - DigitsValue(Unsigned(t), 0)
    ELSE DigitsValue(Unsigned(t), 0)

\* one character as repr() writes it inside a quoted string
ReprChar(c) ==
    CASE c = "\t" -> <<"\\", "t">>
      [] c = "\n" -> <<"\\", "n">>
      [] c = "\\" -> <<"\\", "\\">>
      [] OTHER -> <<c>>

RECURSIVE ReprBody(_)
ReprBody(s) ==
    IF s = <<>> THEN <<>> ELSE ReprChar(Head(s)) \o ReprBody(Tail(s))

\* repr(s) of a string without quote characters
Repr(s) == <<"'">> \o ReprBody(s) \o <<"'">>

\* str(e) of the ValueError int(s) raises
IntErrorText(s) ==
    <<"i", "n", "v", "a", "l", "i", "d", " ", "l", "i", "t", "e", "r", "a", "l",
      " ", "f", "o", "r", " ", "i", "n", "t", "(", ")", " ", "w", "i", "t", "h",
      " ", "b", "a", "s", "e", " ", "1", "0", ":", " ">> \o Repr(s)

\* str(e) of the ValueError raised for a port outside the range
PortRangeText ==
    <<"P", "o", "r", "t", " ", "m", "u", "s", "t", " ", "b", "e", " ", "b", "e",
      "t", "w", "e", "e", "n", " ", "1", " ", "a", "n", "d", " ", "6", "5", "5",
      "3", "5">>

\* ------------------------------------------------------------- JSON values
\* A JSON value is a pair <<t, v>>: t is its Python type after json(), v its
\* content (a dict as a function from keys, a list as a sequence, a str as a
\* sequence of characters).
JNull == <<"null", 0>>
JBool(b) == <<"bool", b>>
JNum(n) == <<"num", n>>
JStr(s) == <<"str", s>>
JArr(a) == <<"arr", a>>
JObj(f) == <<"obj", f>>

\* the type and the content of a JSON value
TypeOf(x) == x[1]
ValueOf(x) == x[2]

\* a dict holding the optional members choices and usage, and an id
Body(c, u) ==
    LET opt == [k \in {"choices", "usage", "id"} |->
                   CASE k = "choices" -> c [] k = "usage" -> u
                     [] OTHER -> Some(JStr(<<"c", "1">>))]
    IN JObj([k \in {x \in DOMAIN opt : opt[x] # None} |-> opt[k][1]])

Choice(text) == JObj([k \in {"text", "index"} |->
                        IF k = "text" THEN text ELSE JNum(0)])

UsageFields == {"prompt_tokens", "completion_tokens", "total_tokens"}

\* a usage object with the members D, holding distinct counts derived from n
UsageObj(D, n) ==
    JObj([k \in D |-> CASE k = "prompt_tokens" -> JNum(n)
                        [] k = "completion_tokens" -> JNum(n + 1)
                        [] OTHER -> JNum(2 * n + 1)])

GoodChoices == JArr(<<Choice(JStr(S_Paris))>>)

ChoicesOptions ==
    {None, Some(JNull), Some(JArr(<<>>)), Some(JStr(<<>>)),
     Some(JStr(<<"a", "b">>)), Some(JNum(5)), Some(JBool(FALSE)), Some(JObj(<<>>)),
     Some(JObj([k \in {"a"} |-> JNum(1)])),
     Some(GoodChoices),
     Some(JArr(<<Choice(JStr(S_Paris)), Choice(JStr(<<"x">>))>>)),
     Some(JArr(<<Choice(JNum(7))>>)),
     Some(JArr(<<JObj(<<>>)>>)),
     Some(JArr(<<JNum(5)>>)), Some(JArr(<<JNull>>)),
     Some(JArr(<<JStr(<<"x">>)>>)), Some(JArr(<<JArr(<<>>)>>))}

UsageOptions ==
    {None, Some(JNull), Some(JArr(<<>>)), Some(JNum(3)), Some(JStr(<<"u">>))}
    \cup {Some(UsageObj(D, n)) : D \in SUBSET UsageFields, n \in 0..MaxCount}
    \cup {Some(JObj([k \in {"prompt_tokens"} |-> JNull]))}

JsonSamples ==
    {JNull, JNum(5), JBool(TRUE), JStr(<<"h", "i">>), JStr(<<"x">> \o S_choices),
     JArr(<<>>), JArr(<<JStr(S_choices)>>), JArr(<<JNum(1)>>)}
    \cup {Body(c, Some(UsageObj(UsageFields, 0))) : c \in ChoicesOptions}
    \cup {Body(Some(GoodChoices), u) : u \in UsageOptions}
    \cup {Body(None, None), Body(Some(JNull), None)}

\* a response body: text that is not JSON, or a JSON document
Bodies ==
    {<<"text", S_internal_error>>, <<"text", <<>>>>}
    \cup {<<"json", j>> : j \in JsonSamples}

Statuses == {199, 200, 201, 299, 300, 304, 399, 400, 404, 499, 500, 599, 600}

NoBody == <<"text", <<>>>>

\* what the network does with the one request
ServerBehaviours ==
    {[kind |-> k, status |-> 0, body |-> NoBody] :
        k \in {"refused", "connect_timeout", "read_timeout"}}
    \cup {[kind |-> "response", status |-> s, body |-> b] :
            s \in Statuses, b \in Bodies}

\* ------------------------------------------------------------ environment
K_HOST == "LM_STUDIO_HOST"
K_PORT == "LM_STUDIO_PORT"
K_MODEL == "LM_STUDIO_MODEL"
K_MAX_TOKENS == "LM_STUDIO_MAX_TOKENS"

\* the keys of required_vars, in the order the dict is built
RequiredKeys == <<K_HOST, K_PORT, K_MODEL>>

HostOptions == {None, Some(<<>>), Some(S_localhost)}

PortOptions ==
    {None, Some(<<>>), Some(<<" ">>),
     Some(<<"0">>), Some(<<"1">>), Some(<<"-", "1">>), Some(<<"a", "b", "c">>),
     Some(<<"6", "5", "5", "3", "5">>), Some(<<"6", "5", "5", "3", "6">>),
     Some(<<"8", "0", "8", "0">>), Some(<<" ", "8", "0", "\n">>),
     Some(<<"+", "8", "0">>), Some(<<"1", "_", "0">>), Some(<<"8", "0", ".", "0">>),
     Some(<<"\t", "x">>)}

ModelOptions == {None, Some(<<>>), Some(S_gemma)}

MaxTokensOptions ==
    {None, Some(<<>>), Some(<<"0">>), Some(<<"5", "0">>), Some(<<"-", "5">>),
     Some(<<"x">>), Some(<<"1", ".", "5">>)}

\* the process environment after load_dotenv(): a key is absent or has a value
EnvOf(h, p, m, t) ==
    LET opt == [k \in {K_HOST, K_PORT, K_MODEL, K_MAX_TOKENS} |->
                   CASE k = K_HOST -> h [] k = K_PORT -> p
                     [] k = K_MODEL -> m [] OTHER -> t]
    IN [k \in {x \in DOMAIN opt : opt[x] # None} |-> opt[k][1]]

Environments ==
    {EnvOf(h, p, m, t) : h \in HostOptions, p \in PortOptions,
                         m \in ModelOptions, t \in MaxTokensOptions}

VARIABLES
    env,        \* the environment of the process
    pc,         \* the position of main
    args,       \* the parsed command line
    settings,   \* the value load_settings returned, if it has
    max_tokens, \* main's resolved token limit, if resolved
    requests,   \* the HTTP requests sent so far
    wire,       \* what the network did with the request
    completion, \* the value query_lm_studio returned (None on error)
    failure,    \* the kind of failure reported, "" while there is none
    stderr,     \* the error text written
    exit_code,  \* the exit status of the process, if it has exited
    uncaught    \* an exception left main unhandled

vars == <<env, pc, args, settings, max_tokens, requests, wire, completion,
          failure, stderr, exit_code, uncaught>>

\* ---------------------------------------------------------- load_settings
\* os.getenv(key): the value, or None when the key is not set
Getenv(e, key) == IF key \in DOMAIN e THEN Some(e[key]) ELSE None

\* os.getenv(key, default)
GetenvDefault(e, key, default) == IF key \in DOMAIN e THEN e[key] ELSE default

\* not value, for value None or a string
IsMissing_NoneOnly(v) == v = None
IsMissing(v) == v = None \/ v[1] = <<>>

\* [key for key, value in required_vars.items() if not value]
RECURSIVE MissingFrom_First(_, _)
MissingFrom_First(e, keys) ==
    IF keys = <<>> THEN <<>>
    ELSE IF IsMissing(Getenv(e, Head(keys))) THEN <<Head(keys)>>
    ELSE MissingFrom_First(e, Tail(keys))
RECURSIVE MissingFrom(_, _)
MissingFrom(e, keys) ==
    IF keys = <<>> THEN <<>>
    ELSE IF IsMissing(Getenv(e, Head(keys)))
         THEN <<Head(keys)>> \o MissingFrom(e, Tail(keys))
         ELSE MissingFrom(e, Tail(keys))

\* port < 1 or port > 65535
PortOutOfRange_Off(port) == port < 0 \/ port > PortMax
PortOutOfRange(port) == port < PortMin \/ port > PortMax

\* the text of the ValueError caught at the port conversion
PortErrorText_Fixed(s) == PortRangeText
PortErrorText(s) ==
    IF ~IsIntLiteral(s) THEN IntErrorText(s) ELSE PortRangeText

NoSettings == [host |-> <<>>, port |-> 0, model |-> <<>>, max_tokens |-> 0]

\* The result of load_settings: kind "Settings" with the dictionary returned,
\* "MissingConfig" or "InvalidPort" when it prints and calls sys.exit(code),
\* "ValueError" when the token-limit conversion raises out of the function.
load_settings(e) ==
    LET missing == MissingFrom(e, RequiredKeys)
        portText == e[K_PORT]
        tokText == GetenvDefault(e, K_MAX_TOKENS, <<"1", "0", "0">>)
    IN
    IF missing # <<>>
    THEN [kind |-> "MissingConfig", code |-> 1, missing |-> missing,
          detail |-> <<>>, settings |-> NoSettings]
    ELSE IF ~IsIntLiteral(portText) \/ PortOutOfRange(IntValue(portText))
    THEN [kind |-> "InvalidPort", code |-> 1, missing |-> <<>>,
          detail |-> PortErrorText(portText), settings |-> NoSettings]
    ELSE IF ~IsIntLiteral(tokText)
    THEN [kind |-> "ValueError", code |-> 1, missing |-> <<>>,
          detail |-> IntErrorText(tokText), settings |-> NoSettings]
    ELSE [kind |-> "Settings", code |-> 0, missing |-> <<>>, detail |-> <<>>,
          settings |-> [host |-> e[K_HOST], port |-> IntValue(portText),
                        model |-> e[K_MODEL], max_tokens |-> IntValue(tokText)]]

\* -------------------------------------------------------- query_lm_studio
\* The classes an exception of class cls is an instance of (requests.exceptions
\* and the built-in exceptions).
Mro(cls) ==
    CASE cls = "ConnectionError" ->
            {"ConnectionError", "RequestException", "OSError", "Exception"}
      [] cls = "ConnectTimeout" ->
            {"ConnectTimeout", "ConnectionError", "Timeout",
             "RequestException", "OSError", "Exception"}
      [] cls = "ReadTimeout" ->
            {"ReadTimeout", "Timeout", "RequestException", "OSError",
             "Exception"}
      [] cls = "HTTPError" ->
            {"HTTPError", "RequestException", "OSError", "Exception"}
      [] cls = "JSONDecodeError" ->
            {"JSONDecodeError", "InvalidJSONError", "RequestException",
             "OSError", "ValueError", "Exception"}
      [] OTHER -> {cls, "Exception"}

\* the except clauses of query_lm_studio, in the order they are written
Handlers_NoCatchAll ==
    <<[class |-> "ConnectionError", kind |-> "ConnectionFailed"],
      [class |-> "Timeout", kind |-> "TimedOut"],
      [class |-> "HTTPError", kind |-> "HttpError"]>>
Handlers ==
    <<[class |-> "ConnectionError", kind |-> "ConnectionFailed"],
      [class |-> "Timeout", kind |-> "TimedOut"],
      [class |-> "HTTPError", kind |-> "HttpError"],
      [class |-> "Exception", kind |-> "Other"]>>

\* the kind of the first clause that matches, "Propagated" when none does
RECURSIVE FirstHandler(_, _)
FirstHandler(cls, hs) ==
    IF hs = <<>> THEN "Propagated"
    ELSE IF Head(hs).class \in Mro(cls) THEN Head(hs).kind
    ELSE FirstHandler(cls, Tail(hs))

Dispatch(cls) == FirstHandler(cls, Handlers)

\* the value of a Python expression, or the class of the exception it raises
Ok(v) == [exc |-> "", val |-> v]
Raise(cls) == [exc |-> cls, val |-> JNull]

\* 'choices' in x
PyContainsChoices(x) ==
    CASE TypeOf(x) = "obj" -> Ok("choices" \in DOMAIN ValueOf(x))
      [] TypeOf(x) = "arr" ->
            Ok(\E i \in 1..Len(ValueOf(x)) :
                  /\ TypeOf(ValueOf(x)[i]) = "str"
                  /\ ValueOf(ValueOf(x)[i]) = S_choices)
      [] TypeOf(x) = "str" -> Ok(IsSubstring(S_choices, ValueOf(x)))
      [] OTHER -> Raise("TypeError")

\* x[key] for a string key
PyGetItemKey(x, key) ==
    CASE TypeOf(x) = "obj" ->
            IF key \in DOMAIN ValueOf(x) THEN Ok(ValueOf(x)[key])
            ELSE Raise("KeyError")
      [] OTHER -> Raise("TypeError")

\* len(x)
PyLen(x) ==
    CASE TypeOf(x) = "obj" -> Ok(Cardinality(DOMAIN ValueOf(x)))
      [] TypeOf(x) \in {"arr", "str"} -> Ok(Len(ValueOf(x)))
      [] OTHER -> Raise("TypeError")

\* x[0]
PyGetItem0(x) ==
    CASE TypeOf(x) = "arr" ->
            IF ValueOf(x) # <<>> THEN Ok(ValueOf(x)[1])
            ELSE Raise("IndexError")
      [] TypeOf(x) = "str" ->
            IF ValueOf(x) # <<>> THEN Ok(JStr(<<ValueOf(x)[1]>>))
            ELSE Raise("IndexError")
      [] TypeOf(x) = "obj" -> Raise("KeyError")
      [] OTHER -> Raise("TypeError")

\* x.get(key, default)
PyGet(x, key, default) ==
    CASE TypeOf(x) = "obj" ->
            IF key \in DOMAIN ValueOf(x) THEN Ok(ValueOf(x)[key])
            ELSE Ok(default)
      [] OTHER -> Raise("AttributeError")

\* usage.get(field, 0)
UsageMember_NoDefault(usage, field) == PyGetItemKey(usage, field)
UsageMember(usage, field) == PyGet(usage, field, JNum(0))

\* response.raise_for_status() raises HTTPError
RaisesForStatus_ServerOnly(status) == 500 <= status /\ status < 600
RaisesForStatus(status) == 400 <= status /\ status < 600

\* how the try block ends: an exception class, or a return
Raised(cls) == [exc |-> cls, kind |-> "", result |-> None]
Returned(kind, result) == [exc |-> "", kind |-> kind, result |-> result]

\* the branch on the decoded response: extract the completion, or report an
\* unexpected format
Extract(result) ==
    LET has == PyContainsChoices(result) IN
    IF has.exc # "" THEN Raised(has.exc)
    ELSE IF ~has.val THEN Returned("MalformedResponse", None)
    ELSE
    LET choices == PyGetItemKey(result, "choices") IN
    IF choices.exc # "" THEN Raised(choices.exc)
    ELSE
    LET n == PyLen(choices.val) IN
    IF n.exc # "" THEN Raised(n.exc)
    ELSE IF ~(n.val > 0) THEN Returned("MalformedResponse", None)
    ELSE
    LET first == PyGetItem0(choices.val) IN
    IF first.exc # "" THEN Raised(first.exc)
    ELSE
    LET text == PyGet(first.val, "text", JStr(<<>>)) IN
    IF text.exc # "" THEN Raised(text.exc)
    ELSE
    LET usage == PyGet(result, "usage", JObj(<<>>)) IN
    IF usage.exc # "" THEN Raised(usage.exc)
    ELSE
    LET p == UsageMember(usage.val, "prompt_tokens")
        c == UsageMember(usage.val, "completion_tokens")
        t == UsageMember(usage.val, "total_tokens")
    IN
    IF p.exc # "" THEN Raised(p.exc)
    ELSE IF c.exc # "" THEN Raised(c.exc)
    ELSE IF t.exc # "" THEN Raised(t.exc)
    ELSE Returned("Success",
                  Some([text |-> text.val,
                        usage |-> [prompt_tokens |-> p.val,
                                   completion_tokens |-> c.val,
                                   total_tokens |-> t.val]]))

\* the try block: post, raise_for_status, json, extraction
TryBlock(w) ==
    CASE w.kind = "refused" -> Raised("ConnectionError")
      [] w.kind = "connect_timeout" -> Raised("ConnectTimeout")
      [] w.kind = "read_timeout" -> Raised("ReadTimeout")
      [] OTHER ->
            IF RaisesForStatus(w.status) THEN Raised("HTTPError")
            ELSE IF TypeOf(w.body) # "json" THEN Raised("JSONDecodeError")
            ELSE Extract(ValueOf(w.body))

\* The end of query_lm_studio for what the network did: the failure kind of
\* the except clause that ran ("Success" on a normal return, "Propagated"
\* when no clause caught the exception) and the value returned.
query_result(w) ==
    LET t == TryBlock(w) IN
    IF t.exc = "" THEN [kind |-> t.kind, exc |-> "", result |-> t.result]
    ELSE [kind |-> Dispatch(t.exc), exc |-> t.exc, result |-> None]

\* the url and the keyword arguments of requests.post
Request(s, prompt, temperature, limit) ==
    [url |-> [scheme |-> "http", host |-> s.host, port |-> s.port,
              path |-> "/api/v0/completions"],
     json |-> [model |-> s.model, prompt |-> prompt,
               temperature |-> temperature, max_tokens |-> limit,
               stream |-> FALSE],
     timeout |-> Timeout]

ErrLine(kind, keys, text, status, body) ==
    [kind |-> kind, keys |-> keys, text |-> text, status |-> status,
     body |-> body]

\* ------------------------------------------------------------------- main
Init ==
    /\ env \in Environments
    /\ pc = "parse_args"
    /\ args = [max_tokens |-> None]
    /\ settings = None
    /\ max_tokens = None
    /\ requests = <<>>
    /\ wire = [kind |-> "none", status |-> 0, body |-> NoBody]
    /\ completion = None
    /\ failure = ""
    /\ stderr = <<>>
    /\ exit_code = None
    /\ uncaught = FALSE

\* parser.parse_args() accepts the command line
ParseArgs ==
    /\ pc = "parse_args"
    /\ \E m \in {None} \cup {Some(n) : n \in 0..MaxCliTokens} :
          args' = [max_tokens |-> m]
    /\ pc' = "load_settings"
    /\ UNCHANGED <<env, settings, max_tokens, requests, wire, completion,
                   failure, stderr, exit_code, uncaught>>

\* parser.parse_args() rejects the command line and exits with status 2
ParseArgsError ==
    /\ pc = "parse_args"
    /\ pc' = "exited"
    /\ failure' = "Usage"
    /\ exit_code' = Some(2)
    /\ UNCHANGED <<env, args, settings, max_tokens, requests, wire, completion,
                   stderr, uncaught>>

\* load_settings() prints an error and calls sys.exit(1); the one line kept is
\* the error message (the hint printed after a missing-key message names no
\* key)
LoadSettingsExit ==
    /\ pc = "load_settings"
    /\ LET r == load_settings(env) IN
       /\ r.kind \in {"MissingConfig", "InvalidPort"}
       /\ failure' = r.kind
       /\ stderr' = Append(stderr, ErrLine(r.kind, r.missing, r.detail, 0,
                                            NoBody))
       /\ exit_code' = Some(r.code)
    /\ pc' = "exited"
    /\ UNCHANGED <<env, args, settings, max_tokens, requests, wire, completion,
                   uncaught>>

\* int(os.getenv('LM_STUDIO_MAX_TOKENS', '100')) raises; nothing in main
\* catches it, and the interpreter ends with a traceback and status 1
LoadSettingsRaise ==
    /\ pc = "load_settings"
    /\ LET r == load_settings(env) IN
       /\ r.kind = "ValueError"
       /\ failure' = r.kind
       /\ stderr' = Append(stderr, ErrLine("Traceback", <<>>, r.detail, 0,
                                            NoBody))
       /\ exit_code' = Some(r.code)
    /\ uncaught' = TRUE
    /\ pc' = "exited"
    /\ UNCHANGED <<env, args, settings, max_tokens, requests, wire, completion>>

\* args.max_tokens if args.max_tokens is not None else settings['max_tokens']
ResolveMaxTokens_Truthy(a, s) ==
    IF a.max_tokens # None /\ a.max_tokens[1] # 0 THEN a.max_tokens[1]
    ELSE s.max_tokens
ResolveMaxTokens(a, s) ==
    IF a.max_tokens # None THEN a.max_tokens[1] ELSE s.max_tokens

\* load_settings() returns and main resolves the token limit
LoadSettingsReturn ==
    /\ pc = "load_settings"
    /\ LET r == load_settings(env) IN
       /\ r.kind = "Settings"
       /\ settings' = Some(r.settings)
       /\ max_tokens' = Some(ResolveMaxTokens(args, r.settings))
    /\ pc' = "query"
    /\ UNCHANGED <<env, args, requests, wire, completion, failure, stderr,
                   exit_code, uncaught>>

\* query_lm_studio builds the url and the payload and calls requests.post
Post ==
    /\ pc = "query"
    /\ requests' = Append(requests,
                          Request(settings[1], "prompt", "0.7", max_tokens[1]))
    /\ \E w \in ServerBehaviours : wire' = w
    /\ pc' = "response"
    /\ UNCHANGED <<env, args, settings, max_tokens, completion, failure,
                   stderr, exit_code, uncaught>>

\* the rest of the try block and the except clauses: query_lm_studio returns
\* (or an exception no clause catches leaves main)
Receive ==
    /\ pc = "response"
    /\ LET r == query_result(wire) IN
       IF r.kind = "Propagated"
       THEN /\ uncaught' = TRUE
            /\ failure' = r.exc
            /\ exit_code' = Some(1)
            /\ pc' = "exited"
            /\ UNCHANGED <<completion, stderr>>
       ELSE /\ completion' = r.result
            /\ failure' = IF r.kind = "Success" THEN "" ELSE r.kind
            /\ stderr' = IF r.kind = "Success" THEN stderr
                         ELSE IF r.kind = "HttpError"
                         THEN Append(stderr, ErrLine(r.kind, <<>>, <<>>,
                                                     wire.status, wire.body))
                         ELSE Append(stderr, ErrLine(r.kind, <<>>, <<>>, 0,
                                                     NoBody))
            /\ pc' = "returned"
            /\ UNCHANGED <<exit_code, uncaught>>
    /\ UNCHANGED <<env, args, settings, max_tokens, requests, wire>>

\* main prints the completion and exits 0, or exits 1 when it got None
Exit ==
    /\ pc = "returned"
    /\ exit_code' = Some(IF completion # None THEN 0 ELSE 1)
    /\ pc' = "exited"
    /\ UNCHANGED <<env, args, settings, max_tokens, requests, wire, completion,
                   failure, stderr, uncaught>>

Next ==
    \/ ParseArgs
    \/ ParseArgsError
    \/ LoadSettingsExit
    \/ LoadSettingsRaise
    \/ LoadSettingsReturn
    \/ Post
    \/ Receive
    \/ Exit

Spec == Init /\ [][Next]_vars

\* ------------------------------------------------------------- properties
\* The conditions below are stated on the raw environment and the raw
\* response, not through the operators of load_settings or query_lm_studio.

\* key k is absent from the environment or set to the empty string
AbsentOrEmpty(k) == k \notin DOMAIN env \/ env[k] = <<>>

MissingKeys == {k \in {K_HOST, K_PORT, K_MODEL} : AbsentOrEmpty(k)}

\* the port text is present and is not an integer in [1, 65535]
PortUnparsable == ~IsIntLiteral(env[K_PORT])
PortOutside ==
    IsIntLiteral(env[K_PORT]) /\ IntValue(env[K_PORT]) \notin 1..65535
PortInvalid == PortUnparsable \/ PortOutside

TokenLimitInvalid ==
    K_MAX_TOKENS \in DOMAIN env /\ ~IsIntLiteral(env[K_MAX_TOKENS])

ConfigFails ==
    \/ MissingKeys # {}
    \/ MissingKeys = {} /\ PortInvalid
    \/ TokenLimitInvalid

\* main is past load_settings (and the command line was accepted)
Loaded == pc \notin {"parse_args", "load_settings"} /\ failure # "Usage"

LastErr == stderr[Len(stderr)]

\* C1: when configuration loading fails (a required key absent or empty, the
\* port invalid, the token limit not an integer) the process ends with a
\* non-zero exit code and no HTTP request is ever sent; a request is only
\* sent after load_settings returned a Settings value.
C1_ConfigErrorsFatal ==
    /\ requests # <<>> => settings # None /\ ~ConfigFails
    /\ (Loaded /\ ConfigFails) =>
          /\ pc = "exited"
          /\ exit_code # None /\ exit_code[1] # 0
          /\ requests = <<>>
          /\ settings = None
          /\ wire.kind = "none"

C1_Witness ==
    /\ pc = "exited"
    /\ MissingKeys = {} /\ ~PortInvalid /\ TokenLimitInvalid
    /\ exit_code = Some(1)
    /\ requests = <<>>

\* C2: the port of the Settings main uses, and of the url of every request
\* sent, is an integer in [1, 65535], whatever LM_STUDIO_PORT holds.
C2_PortInRange ==
    /\ settings # None => settings[1].port \in 1..65535
    /\ \A i \in 1..Len(requests) : requests[i].url.port \in 1..65535

C2_Witness ==
    /\ requests # <<>>
    /\ env[K_PORT] = <<" ", "8", "0", "\n">>
    /\ requests[1].url.port = 80

\* the text has no character that repr() writes escaped
Printable(s) == \A i \in 1..Len(s) : s[i] \notin {"\t", "\n", "\\", "'"}

\* C3 (as claimed): with all required keys present and a port that does not
\* parse or lies outside [1, 65535], load_settings fails with InvalidPort and
\* the reported failure includes the offending port value, in both cases.
C3_Original ==
    (Loaded /\ MissingKeys = {} /\ PortInvalid) =>
        /\ failure = "InvalidPort"
        /\ IsSubstring(env[K_PORT], LastErr.text)

\* C3 (amended): with all required keys present and such a port, load_settings
\* fails with InvalidPort and exit code 1; when the port does not parse the
\* message includes the value as repr() quotes it (verbatim when the value is
\* printable); when the port parses to a value outside the range the message
\* is the fixed range text and does not include the value.
C3_InvalidPortMessage ==
    (Loaded /\ MissingKeys = {} /\ PortInvalid) =>
        /\ failure = "InvalidPort"
        /\ pc = "exited" /\ exit_code = Some(1)
        /\ PortUnparsable =>
              /\ IsSubstring(Repr(env[K_PORT]), LastErr.text)
              /\ Printable(env[K_PORT]) =>
                    IsSubstring(env[K_PORT], LastErr.text)
        /\ PortOutside =>
              /\ LastErr.text = PortRangeText
              /\ ~IsSubstring(env[K_PORT], LastErr.text)

C3_Witness ==
    /\ pc = "exited"
    /\ failure = "InvalidPort"
    /\ env[K_PORT] = <<"6", "5", "5", "3", "6">>
    /\ LastErr.text = PortRangeText

\* the keys a message names
Named(keys) == {keys[i] : i \in 1..Len(keys)}

\* C4: load_settings fails with MissingConfig exactly when some required key
\* is absent or empty; its one message names every such key and no other,
\* each once; the check comes before the validation of the port.
C4_MissingConfigExact ==
    Loaded =>
        /\ failure = "MissingConfig" <=> MissingKeys # {}
        /\ MissingKeys # {} =>
              /\ pc = "exited"
              /\ Len(stderr) = 1
              /\ Named(LastErr.keys) = MissingKeys
              /\ Len(LastErr.keys) = Cardinality(MissingKeys)

C4_Witness ==
    /\ pc = "exited"
    /\ failure = "MissingConfig"
    /\ LastErr.keys = <<K_HOST, K_MODEL>>
    /\ env[K_PORT] = <<"a", "b", "c">>

\* C5: max_tokens in the body of a request is the --max-tokens value when one
\* was given (0 included), and otherwise LM_STUDIO_MAX_TOKENS, or 100 when
\* that key is absent.
C5_MaxTokensResolved ==
    \A i \in 1..Len(requests) :
        requests[i].json.max_tokens =
            IF args.max_tokens # None THEN args.max_tokens[1]
            ELSE IF K_MAX_TOKENS \in DOMAIN env
                 THEN IntValue(env[K_MAX_TOKENS])
                 ELSE 100

C5_Witness ==
    /\ requests # <<>>
    /\ args.max_tokens = Some(0)
    /\ K_MAX_TOKENS \in DOMAIN env
    /\ env[K_MAX_TOKENS] = <<"5", "0">>
    /\ requests[1].json.max_tokens = 0

\* query_lm_studio has ended for a response of the server
Answered == pc \in {"returned", "exited"} /\ wire.kind = "response"

\* C6 (as claimed): for every response whose status is not in 200..299 the
\* call fails with HttpError carrying that status and the body, never with
\* success or another failure kind.
C6_Original ==
    (Answered /\ wire.status \notin 200..299) =>
        /\ failure = "HttpError"
        /\ completion = None
        /\ LastErr.status = wire.status
        /\ LastErr.body = wire.body

\* C6 (amended): for every response whose status is in 400..599 the call
\* fails with HttpError carrying that status and the body, never with success
\* or another failure kind.
C6_HttpErrorStatuses ==
    (Answered /\ wire.status \in 400..599) =>
        /\ failure = "HttpError"
        /\ completion = None
        /\ LastErr.kind = "HttpError"
        /\ LastErr.status = wire.status
        /\ LastErr.body = wire.body

C6_Witness ==
    /\ pc = "returned"
    /\ wire.status = 404
    /\ wire.body = <<"text", S_internal_error>>
    /\ failure = "HttpError"
    /\ LastErr.status = 404

\* the JSON value is a dict whose member choices is a non-empty list
HasChoicesArray(j) ==
    /\ TypeOf(j) = "obj"
    /\ "choices" \in DOMAIN ValueOf(j)
    /\ TypeOf(ValueOf(j)["choices"]) = "arr"
    /\ ValueOf(ValueOf(j)["choices"]) # <<>>

\* a 2xx response with a JSON body
JsonSuccess ==
    Answered /\ wire.status \in 200..299 /\ TypeOf(wire.body) = "json"

\* C7: for every 2xx response whose JSON body has no non-empty choices array
\* (key absent, array empty, value null or not an array, top level not an
\* object) the call fails with MalformedResponse and nothing else.
C7_MalformedResponse ==
    (JsonSuccess /\ ~HasChoicesArray(ValueOf(wire.body))) =>
        failure = "MalformedResponse" /\ completion = None

\* C8: a request that exceeds the timeout, in the connection phase or in the
\* read phase, fails with TimedOut, never with ConnectionFailed or Other.
C8_TimeoutIsTimedOut ==
    (pc \in {"returned", "exited"}
        /\ wire.kind \in {"connect_timeout", "read_timeout"}) =>
        failure = "TimedOut"

FailureKinds ==
    {"ConnectionFailed", "TimedOut", "HttpError", "MalformedResponse", "Other"}

\* C9: a call made with validated Settings ends in exactly one outcome, a
\* result or one failure value, whatever the server does: no exception leaves
\* the call, the call does not end the process, one request is sent.
C9_DefiniteOutcome ==
    /\ Len(requests) <= 1
    /\ (wire.kind # "none" /\ pc # "response") =>
          /\ ~uncaught
          /\ Len(requests) = 1
          /\ (completion # None /\ failure = "")
                \/ (completion = None /\ failure \in FailureKinds)
          /\ failure # "" => Len(stderr) = 1 /\ LastErr.kind = failure
          /\ pc = "returned" => exit_code = None
          /\ pc = "exited" =>
                exit_code = Some(IF completion # None THEN 0 ELSE 1)

C9_Witness ==
    /\ pc = "returned"
    /\ wire.status = 200
    /\ wire.body = <<"json", Body(Some(GoodChoices), Some(JNull))>>
    /\ failure = "Other"
    /\ completion = None
    /\ Len(requests) = 1

\* member k of dict d, or the default when d has no such member
MemberOr(d, k, default) ==
    IF k \in DOMAIN ValueOf(d) THEN ValueOf(d)[k] ELSE default

\* C10 (as claimed): for every 2xx response whose JSON body has a non-empty
\* choices array the call succeeds.
C10_Original ==
    (JsonSuccess /\ HasChoicesArray(ValueOf(wire.body))) =>
        completion # None /\ failure = ""

\* choices[0] of the body is a dict, and usage is absent or a dict
WellTyped(j) ==
    /\ TypeOf(ValueOf(ValueOf(j)["choices"])[1]) = "obj"
    /\ "usage" \in DOMAIN ValueOf(j) => TypeOf(ValueOf(j)["usage"]) = "obj"

\* C10 (amended): for every 2xx response whose JSON body has a non-empty
\* choices array whose first element is an object, and whose usage is absent
\* or an object, the call succeeds with the text of choices[0] (the empty
\* string when it has none) and the three usage fields, each the field of
\* usage or 0 when the field or usage is absent.
C10_SuccessResult ==
    (JsonSuccess /\ HasChoicesArray(ValueOf(wire.body))
        /\ WellTyped(ValueOf(wire.body))) =>
        LET j == ValueOf(wire.body)
            first == ValueOf(ValueOf(j)["choices"])[1]
            usage == MemberOr(j, "usage", JObj(<<>>))
        IN
        /\ failure = ""
        /\ completion # None
        /\ completion[1].text = MemberOr(first, "text", JStr(<<>>))
        /\ DOMAIN completion[1].usage = UsageFields
        /\ \A k \in UsageFields :
              completion[1].usage[k] = MemberOr(usage, k, JNum(0))

C10_Witness ==
    /\ pc = "returned"
    /\ wire.status = 201
    /\ wire.body =
          <<"json", Body(Some(GoodChoices),
                         Some(UsageObj({"completion_tokens"}, 1)))>>
    /\ completion # None
    /\ completion[1].text = JStr(S_Paris)
    /\ completion[1].usage.prompt_tokens = JNum(0)
    /\ completion[1].usage.completion_tokens = JNum(2)
    /\ completion[1].usage.total_tokens = JNum(0)
====
